---- MODULE Spec2Model ----
(***************************************************************************)
(* A model of src/main.py (the "Yesterday's Leads" API): the age-bucket    *)
(* classifier, the createdAt range filter, the pricing table and its       *)
(* loader, the /leads/search handler, and the per-tier checkout protocol   *)
(* of the design document.                                                 *)
(*                                                                         *)
(* Conventions.                                                            *)
(*  - Text values are sequences of one-character strings, so that strip,   *)
(*    upper, lower, replace and slicing are computed and not assumed.      *)
(*  - Time is counted in ticks, TicksPerDay ticks to the day; an age in    *)
(*    days is age_ticks / TicksPerDay and is compared against d days as    *)
(*    age_ticks against Days(d).                                           *)
(*  - A document field is a tagged value [t |-> tag, v |-> payload]; the   *)
(*    tag "none" is a missing field (Python None).                         *)
(***************************************************************************)
EXTENDS Integers, Sequences, FiniteSets, TLC

VARIABLES
    now,        \* the wall clock, datetime.now(timezone.utc), in ticks
    phase,      \* "boot" | "serving" | "crashed": module import of main.py
    env,        \* os.environ: [MONGO_URI, PRICING_JSON]
    PRICING,    \* the module-level pricing table
    store,      \* leads_col: the set of documents of the collection
    resp,       \* the last /leads/search response
    sess,       \* a client paging through one query: request, pages so far
    probe,      \* one document run through the classifier and the filter
    ledger,     \* checkout: record id -> sequence of tiers sold
    callers     \* checkout: the state of each concurrent checkout call

vars == <<now, phase, env, PRICING, store, resp, sess, probe, ledger, callers>>

-----------------------------------------------------------------------------
(* Bounds of the model *)

TicksPerDay == 2
MaxAgeDays == 92
SkewDays == 1
MaxTicks == 1

-----------------------------------------------------------------------------
(* Text *)

None == [t |-> "none", v |-> 0]
StrV(s) == [t |-> "str", v |-> s]
IntV(n) == [t |-> "int", v |-> n]
DateV(n) == [t |-> "date", v |-> n]
IsoStrV(n) == [t |-> "isostr", v |-> n]
BadStr == [t |-> "badstr", v |-> 0]

Lowers == <<"a","b","c","d","e","f","g","h","i","j","k","l","m",
            "n","o","p","q","r","s","t","u","v","w","x","y","z">>
Uppers == <<"A","B","C","D","E","F","G","H","I","J","K","L","M",
            "N","O","P","Q","R","S","T","U","V","W","X","Y","Z">>
Digits == <<"0","1","2","3","4","5","6","7","8","9">>

Range(f) == {f[i] : i \in DOMAIN f}

\* str.upper() and str.lower(), character by character
UpperOf == [c \in Range(Lowers) |-> Uppers[CHOOSE i \in DOMAIN Lowers : Lowers[i] = c]]
LowerOf == [c \in Range(Uppers) |-> Lowers[CHOOSE i \in DOMAIN Uppers : Uppers[i] = c]]

upper_ch(c) == IF c \in DOMAIN UpperOf THEN UpperOf[c] ELSE c
lower_ch(c) == IF c \in DOMAIN LowerOf THEN LowerOf[c] ELSE c

upper(s) == [i \in DOMAIN s |-> upper_ch(s[i])]
lower(s) == [i \in DOMAIN s |-> lower_ch(s[i])]

RECURSIVE lstrip(_)
lstrip(s) == IF s # <<>> /\ Head(s) = " " THEN lstrip(Tail(s)) ELSE s

RECURSIVE rstrip(_)
rstrip(s) ==
    IF s # <<>> /\ s[Len(s)] = " " THEN rstrip(SubSeq(s, 1, Len(s) - 1)) ELSE s

strip(s) == rstrip(lstrip(s))

replace_space(s) == [i \in DOMAIN s |-> IF s[i] = " " THEN "_" ELSE s[i]]

isdigit_ch(c) == c \in Range(Digits)

\* str.isdigit(): non-empty and every character a digit
isdigit(s) == s # <<>> /\ \A i \in DOMAIN s : isdigit_ch(s[i])

RECURSIVE digits_of(_)
digits_of(s) ==
    IF s = <<>> THEN <<>>
    ELSE IF isdigit_ch(Head(s)) THEN <<Head(s)>> \o digits_of(Tail(s))
    ELSE digits_of(Tail(s))

digit_val(c) == (CHOOSE i \in DOMAIN Digits : Digits[i] = c) - 1

RECURSIVE int_of(_)
int_of(s) ==
    IF s = <<>> THEN 0 ELSE 10 * int_of(SubSeq(s, 1, Len(s) - 1)) + digit_val(s[Len(s)])

\* (v or ""): None and the empty string both become ""
or_empty(v) == IF v.t = "str" THEN v.v ELSE <<>>

\* Python truthiness of an optional string
truthy(v) == v.t = "str" /\ v.v # <<>>

-----------------------------------------------------------------------------
(* Time *)

Days(d) == d * TicksPerDay
Hours(h) == (h * TicksPerDay) \div 24

NowStart == Days(MaxAgeDays)
NowEnd == NowStart + MaxTicks
Times == 0 .. (NowStart + Days(SkewDays))

-----------------------------------------------------------------------------
(* String literals of main.py *)

s_YESTERDAY_72H == <<"Y","E","S","T","E","R","D","A","Y","_","7","2","H">>
s_DAYS_4_14 == <<"D","A","Y","S","_","4","_","1","4">>
s_DAYS_15_30 == <<"D","A","Y","S","_","1","5","_","3","0">>
s_DAYS_31_90 == <<"D","A","Y","S","_","3","1","_","9","0">>
s_DAYS_91_PLUS == <<"D","A","Y","S","_","9","1","_","P","L","U","S">>
s_ALL == <<"A","L","L">>
s_CABOOM_RETAIL == <<"C","A","B","O","O","M","_","R","E","T","A","I","L">>
s_A_YESTERDAY_72 == <<"Y","E","S","T","E","R","D","A","Y","_","7","2">>
s_A_YESTERDAY == <<"Y","E","S","T","E","R","D","A","Y">>
s_A_4_14 == <<"4","_","1","4">>
s_A_15_30 == <<"1","5","_","3","0">>
s_A_31_90 == <<"3","1","_","9","0">>
s_A_91_PLUS == <<"9","1","_","P","L","U","S">>
s_FE == <<"F","E">>
s_LIFE == <<"L","I","F","E">>
s_VET == <<"V","E","T">>
s_HOME == <<"H","O","M","E">>
s_AUTO == <<"A","U","T","O">>
s_MED == <<"M","E","D">>
s_HEALTH == <<"H","E","A","L","T","H">>
s_RET == <<"R","E","T">>
s_final_expense == <<"f","i","n","a","l","_","e","x","p","e","n","s","e">>
s_life == <<"l","i","f","e">>
s_veteran_life == <<"v","e","t","e","r","a","n","_","l","i","f","e">>
s_home == <<"h","o","m","e">>
s_auto == <<"a","u","t","o">>
s_medicare == <<"m","e","d","i","c","a","r","e">>
s_health == <<"h","e","a","l","t","h">>
s_retirement == <<"r","e","t","i","r","e","m","e","n","t">>
s_veteran == <<"v","e","t","e","r","a","n">>
s_vet == <<"v","e","t">>
s_veteranlife == <<"v","e","t","e","r","a","n","l","i","f","e">>
s_finalexpense == <<"f","i","n","a","l","e","x","p","e","n","s","e">>
s_med == <<"m","e","d">>
s_ret == <<"r","e","t">>
s_ALL_STATES == <<"A","L","L"," ","S","T","A","T","E","S">>
s_ANY == <<"A","N","Y">>

-----------------------------------------------------------------------------
(* Buckets: norm_bucket, parse_dt, bucket_from_created_at, bucket_range_query *)

Tiers == <<s_YESTERDAY_72H, s_DAYS_4_14, s_DAYS_15_30, s_DAYS_31_90, s_DAYS_91_PLUS>>
TierSet == Range(Tiers)

\* the aliases dict of norm_bucket, as (key, value) pairs
aliases ==
    { <<s_A_YESTERDAY_72, s_YESTERDAY_72H>>, <<s_A_YESTERDAY, s_YESTERDAY_72H>>,
      <<s_YESTERDAY_72H, s_YESTERDAY_72H>>,
      <<s_A_4_14, s_DAYS_4_14>>, <<s_DAYS_4_14, s_DAYS_4_14>>,
      <<s_A_15_30, s_DAYS_15_30>>, <<s_DAYS_15_30, s_DAYS_15_30>>,
      <<s_A_31_90, s_DAYS_31_90>>, <<s_DAYS_31_90, s_DAYS_31_90>>,
      <<s_A_91_PLUS, s_DAYS_91_PLUS>>, <<s_DAYS_91_PLUS, s_DAYS_91_PLUS>> }

\* v is a plain text (the request model gives bucket a str default)
norm_bucket(v) ==
    LET b == strip(v) IN
    IF b = <<>> THEN s_ALL
    ELSE LET u == upper(b) IN
         IF \E p \in aliases : p[1] = u
         THEN (CHOOSE p \in aliases : p[1] = u)[2]
         ELSE u

\* a datetime is kept; an ISO text is parsed; anything else is None
parse_dt(v) ==
    CASE v.t = "date" -> DateV(v.v)
      [] v.t = "isostr" -> DateV(v.v)
      [] OTHER -> None

\* bucket_from_created_at with each tier closed at its upper day and the next
\* tier starting right above it (no whole-day rounding of the gaps)
bucket_from_created_at_contiguous(created_at, t) ==
    IF created_at.t = "none" THEN None
    ELSE LET age == t - created_at.v IN
         IF age <= Days(3) THEN StrV(s_YESTERDAY_72H)
         ELSE IF age <= Days(14) THEN StrV(s_DAYS_4_14)
         ELSE IF age <= Days(30) THEN StrV(s_DAYS_15_30)
         ELSE IF age <= Days(90) THEN StrV(s_DAYS_31_90)
         ELSE StrV(s_DAYS_91_PLUS)

\* bucket_from_created_at without the clock-skew branch: a negative age is
\* given no tier
bucket_from_created_at_nofuture(created_at, t) ==
    IF created_at.t = "none" THEN None
    ELSE LET age == t - created_at.v IN
         IF age < 0 THEN None
         ELSE IF age < Days(4) THEN StrV(s_YESTERDAY_72H)
         ELSE IF age < Days(15) THEN StrV(s_DAYS_4_14)
         ELSE IF age < Days(31) THEN StrV(s_DAYS_15_30)
         ELSE IF age < Days(91) THEN StrV(s_DAYS_31_90)
         ELSE StrV(s_DAYS_91_PLUS)

\* age_days = (now - created_at).total_seconds() / 86400.0, kept in ticks
bucket_from_created_at(created_at, t) ==
    IF created_at.t = "none" THEN None
    ELSE LET age == t - created_at.v IN
         IF age < 0 THEN StrV(s_YESTERDAY_72H)
         ELSE IF age <= Days(3) THEN StrV(s_YESTERDAY_72H)
         ELSE IF Days(4) <= age /\ age <= Days(14) THEN StrV(s_DAYS_4_14)
         ELSE IF Days(15) <= age /\ age <= Days(30) THEN StrV(s_DAYS_15_30)
         ELSE IF Days(31) <= age /\ age <= Days(90) THEN StrV(s_DAYS_31_90)
         ELSE IF age >= Days(91) THEN StrV(s_DAYS_91_PLUS)
         ELSE IF age < Days(4) THEN StrV(s_YESTERDAY_72H)
         ELSE IF age < Days(15) THEN StrV(s_DAYS_4_14)
         ELSE IF age < Days(31) THEN StrV(s_DAYS_15_30)
         ELSE IF age < Days(91) THEN StrV(s_DAYS_31_90)
         ELSE StrV(s_DAYS_91_PLUS)

\* the createdAt/created_at range condition: {"$gte": gte, "$lte": lte}
RangeQ(gte, lte) == [k |-> "created", gte |-> gte, lte |-> lte]
NoQuery == [k |-> "none"]

bucket_range_query(bucket_up, t) ==
    LET b == norm_bucket(bucket_up) IN
    IF b = s_ALL THEN NoQuery
    ELSE IF b = s_YESTERDAY_72H THEN RangeQ(DateV(t - Hours(72)), None)
    ELSE IF b = s_DAYS_4_14 THEN RangeQ(DateV(t - Days(14)), DateV(t - Days(4)))
    ELSE IF b = s_DAYS_15_30 THEN RangeQ(DateV(t - Days(30)), DateV(t - Days(15)))
    ELSE IF b = s_DAYS_31_90 THEN RangeQ(DateV(t - Days(90)), DateV(t - Days(31)))
    ELSE IF b = s_DAYS_91_PLUS THEN RangeQ(None, DateV(t - Days(91)))
    ELSE NoQuery

\* the store's comparison of one field with a date range: only a date
\* value is comparable with a date bound
field_in_range(fv, rq) ==
    /\ fv.t = "date"
    /\ rq.gte.t = "none" \/ fv.v >= rq.gte.v
    /\ rq.lte.t = "none" \/ fv.v <= rq.lte.v

\* {"$or": [{"createdAt": range_q}, {"created_at": range_q}]}
or_created(d, rq) ==
    field_in_range(d.createdAt, rq) \/ field_in_range(d.created_at, rq)

\* parse_dt(d.get("createdAt")) or parse_dt(d.get("created_at"))
created_of(d) ==
    IF parse_dt(d.createdAt).t # "none" THEN parse_dt(d.createdAt)
    ELSE parse_dt(d.created_at)

-----------------------------------------------------------------------------
(* Pricing: DEFAULT_PRICING, load_pricing, price_for, caboom_retail_for.   *)
(* A price is a float of dollars, kept as a whole number of cents.  A dict *)
(* is a function; dict.get(k) is None off its domain.                      *)

Num(c) == [t |-> "num", v |-> c]
EmptyDict == [x \in {} |-> 0]
dict_set(m, k, v) == [x \in (DOMAIN m) \cup {k} |-> IF x = k THEN v ELSE m[x]]

PriceRow(a, b, c, d, e, r) ==
    [x \in TierSet \cup {s_CABOOM_RETAIL} |->
        CASE x = s_YESTERDAY_72H -> a
          [] x = s_DAYS_4_14 -> b
          [] x = s_DAYS_15_30 -> c
          [] x = s_DAYS_31_90 -> d
          [] x = s_DAYS_91_PLUS -> e
          [] OTHER -> r]

TypeKeys == {s_final_expense, s_life, s_veteran_life, s_home, s_auto,
             s_medicare, s_health, s_retirement}

DEFAULT_PRICING ==
    [k \in TypeKeys |->
        CASE k = s_final_expense -> PriceRow(1500, 1000, 750, 500, 250, 2500)
          [] k = s_life -> PriceRow(2100, 1400, 1000, 700, 350, 3500)
          [] k = s_veteran_life -> PriceRow(1400, 900, 700, 400, 200, 2300)
          [] k = s_home -> PriceRow(1600, 1100, 800, 550, 300, 2700)
          [] k = s_auto -> PriceRow(1600, 1100, 800, 550, 300, 2700)
          [] k = s_medicare -> PriceRow(1500, 1000, 750, 500, 250, 2500)
          [] k = s_health -> PriceRow(1600, 1100, 800, 550, 300, 2700)
          [] OTHER -> PriceRow(2900, 1900, 1400, 900, 450, 5000)]

\* float(price): a JSON number, a numeric text and a boolean convert;
\* null, any other text, a list and an object raise
float_ok(p) == p.t \in {"num", "numstr", "bool"}
float_of(p) == p.v

\* {str(bucket).strip().upper(): float(price) for bucket, price in v.items()}
RECURSIVE row_of(_)
row_of(items) ==
    IF items = <<>> THEN EmptyDict
    ELSE LET n == Len(items)
             e == items[n]
         IN dict_set(row_of(SubSeq(items, 1, n - 1)), upper(strip(e[1])), float_of(e[2]))

\* the loop over data.items(): a row that is no dict is skipped
RECURSIVE out_of(_)
out_of(items) ==
    IF items = <<>> THEN EmptyDict
    ELSE LET n == Len(items)
             e == items[n]
             rest == out_of(SubSeq(items, 1, n - 1))
         IN IF e[2].t = "object"
            THEN dict_set(rest, lower(strip(e[1])), row_of(e[2].items))
            ELSE rest

\* some float(price) of the loop raises
raises(items) ==
    \E i \in DOMAIN items :
        /\ items[i][2].t = "object"
        /\ \E j \in DOMAIN items[i][2].items : ~float_ok(items[i][2].items[j][2])

\* load_pricing with the except clause around json.loads only: the rows are
\* kept although a price did not convert
load_pricing_partial(raw) ==
    IF raw.t # "text" THEN DEFAULT_PRICING
    ELSE IF raw.json.t = "invalid" THEN DEFAULT_PRICING
    ELSE IF raw.json.t # "object" THEN DEFAULT_PRICING
    ELSE LET out == out_of(raw.json.items) IN
         IF DOMAIN out = {} THEN DEFAULT_PRICING ELSE out

\* raw: [t |-> "unset"], [t |-> "empty"] or [t |-> "text", json |-> J] with J
\* the document json.loads gives, [t |-> "invalid"] when it raises
load_pricing(raw) ==
    IF raw.t # "text" THEN DEFAULT_PRICING
    ELSE IF raw.json.t = "invalid" THEN DEFAULT_PRICING
    ELSE IF raw.json.t # "object" THEN DEFAULT_PRICING
    ELSE IF raises(raw.json.items) THEN DEFAULT_PRICING
    ELSE LET out == out_of(raw.json.items) IN
         IF DOMAIN out = {} THEN DEFAULT_PRICING ELSE out

\* price_for with m.get(bucket, 0.0): a missing tier priced at zero
price_for_zero(P, type_key, bucket) ==
    IF ~truthy(type_key) \/ ~truthy(bucket) THEN None
    ELSE IF type_key.v \notin DOMAIN P THEN None
    ELSE LET m == P[type_key.v] IN
         IF DOMAIN m = {} THEN None
         ELSE IF bucket.v \in DOMAIN m THEN Num(m[bucket.v]) ELSE Num(0)

\* type_key and bucket are optional texts; the result is an optional price
price_for(P, type_key, bucket) ==
    IF ~truthy(type_key) \/ ~truthy(bucket) THEN None
    ELSE IF type_key.v \notin DOMAIN P THEN None
    ELSE LET m == P[type_key.v] IN
         IF DOMAIN m = {} THEN None
         ELSE IF bucket.v \in DOMAIN m THEN Num(m[bucket.v]) ELSE None

caboom_retail_for(P, type_key) ==
    IF ~truthy(type_key) THEN None
    ELSE IF type_key.v \notin DOMAIN P THEN None
    ELSE LET m == P[type_key.v] IN
         IF DOMAIN m = {} THEN None
         ELSE IF s_CABOOM_RETAIL \in DOMAIN m THEN Num(m[s_CABOOM_RETAIL]) ELSE None

-----------------------------------------------------------------------------
(* Helpers of the search handler *)

norm_zip(v) ==
    LET z == digits_of(strip(or_empty(v))) IN
    IF Len(z) >= 5 THEN SubSeq(z, 1, 5) ELSE z

norm_state(v) == upper(strip(or_empty(v)))

\* the CODE_TO_KEY dict, as (key, value) pairs
CODE_TO_KEY ==
    { <<s_FE, s_final_expense>>, <<s_LIFE, s_life>>, <<s_VET, s_veteran_life>>,
      <<s_HOME, s_home>>, <<s_AUTO, s_auto>>, <<s_MED, s_medicare>>,
      <<s_HEALTH, s_health>>, <<s_RET, s_retirement>> }

in_CODE_TO_KEY(code) == \E p \in CODE_TO_KEY : p[1] = code

norm_type_key_from_doc(P, d) ==
    LET code == upper(strip(or_empty(d.lead_type_code))) IN
    IF code # <<>> /\ in_CODE_TO_KEY(code)
    THEN StrV((CHOOSE p \in CODE_TO_KEY : p[1] = code)[2])
    ELSE LET l0 == lower(strip(or_empty(d.lead_type_norm))) IN
         IF l0 = <<>> THEN None
         ELSE LET ln == replace_space(l0) IN
              IF ln \in {s_veteran, s_vet, s_veteranlife, s_veteran_life}
              THEN StrV(s_veteran_life)
              ELSE IF ln \in {s_finalexpense, s_final_expense} THEN StrV(s_final_expense)
              ELSE IF ln \in {s_med, s_medicare} THEN StrV(s_medicare)
              ELSE IF ln \in {s_ret, s_retirement} THEN StrV(s_retirement)
              ELSE IF ln \in DOMAIN P THEN StrV(ln)
              ELSE None

-----------------------------------------------------------------------------
(* The query of leads_search: the list and_clauses, and its evaluation by  *)
(* the collection (find / count_documents).                                *)

\* body.x and str(body.x).strip()
given(x) == truthy(x) /\ strip(x.v) # <<>>

bucket_clause(body, t) ==
    LET brq == bucket_range_query(norm_bucket(body.bucket), t) IN
    IF brq.k = "none" THEN <<>> ELSE <<brq>>

\* state_clause without the "All States" exemption
state_clause_noall(body) ==
    IF given(body.state)
    THEN << [k |-> "state", st |-> norm_state(body.state)] >>
    ELSE <<>>

state_clause(body) ==
    IF given(body.state)
    THEN LET st == norm_state(body.state) IN
         IF st \notin {s_ALL_STATES, s_ALL, s_ANY}
         THEN << [k |-> "state", st |-> st] >>
         ELSE <<>>
    ELSE <<>>

zip_clause(body) ==
    IF given(body.zip)
    THEN LET z == norm_zip(body.zip) IN
         IF z # <<>>
         THEN << [k |-> "zip", z |-> z,
                  zi |-> IF isdigit(z) THEN IntV(int_of(z)) ELSE None] >>
         ELSE <<>>
    ELSE <<>>

type_clause(body) ==
    IF given(body.lead_type_code)
    THEN LET code == upper(strip(body.lead_type_code.v)) IN
         IF in_CODE_TO_KEY(code) THEN << [k |-> "code", code |-> code] >> ELSE <<>>
    ELSE IF given(body.lead_type_norm)
    THEN << [k |-> "norm", lt |-> strip(body.lead_type_norm.v)] >>
    ELSE <<>>

and_clauses(body, t) ==
    bucket_clause(body, t) \o state_clause(body) \o zip_clause(body) \o type_clause(body)

is_text(fv, s) == fv.t = "str" /\ fv.v = s
is_int(fv, n) == fv.t = "int" /\ fv.v = n

\* one clause against one document
clause_matches(d, c) ==
    CASE c.k = "created" -> or_created(d, c)
      [] c.k = "state" -> is_text(d.state, c.st) \/ is_text(d.state2, c.st)
      [] c.k = "zip" ->
            \/ is_text(d.zip5, c.z)
            \/ is_text(d.zip_code, c.z)
            \/ (c.zi.t = "int" /\ is_int(d.zip_code, c.zi.v))
      [] c.k = "code" -> is_text(d.lead_type_code, c.code)
      [] c.k = "norm" ->
            d.lead_type_norm.t = "str" /\ lower(d.lead_type_norm.v) = lower(c.lt)
      [] OTHER -> FALSE

\* q = {} / the one clause / {"$and": and_clauses}
matches(d, q) == \A i \in DOMAIN q : clause_matches(d, q[i])

\* the store's order of a field's values: a missing field below a text,
\* a text below a date
sort_rank(fv) ==
    CASE fv.t = "none" -> 0
      [] fv.t = "int" -> 1
      [] fv.t \in {"str", "isostr", "badstr"} -> 2
      [] OTHER -> 3

field_less(a, b) ==
    \/ sort_rank(a) < sort_rank(b)
    \/ /\ sort_rank(a) = sort_rank(b)
       /\ a.t \in {"date", "isostr"} /\ b.t \in {"date", "isostr"}
       /\ a.v < b.v

field_same(a, b) == ~field_less(a, b) /\ ~field_less(b, a)

\* the sort with ("_id", 1) as its last key
sorts_before_idasc(a, b) ==
    \/ field_less(b.createdAt, a.createdAt)
    \/ /\ field_same(a.createdAt, b.createdAt)
       /\ \/ field_less(b.created_at, a.created_at)
          \/ /\ field_same(a.created_at, b.created_at)
             /\ a.id < b.id

\* sort = [("createdAt", -1), ("created_at", -1), ("_id", -1)]: a comes first
sorts_before(a, b) ==
    \/ field_less(b.createdAt, a.createdAt)
    \/ /\ field_same(a.createdAt, b.createdAt)
       /\ \/ field_less(b.created_at, a.created_at)
          \/ /\ field_same(a.created_at, b.created_at)
             /\ a.id > b.id

RECURSIVE sorted(_)
sorted(S) ==
    IF S = {} THEN <<>>
    ELSE LET first == CHOOSE a \in S : \A b \in S \ {a} : sorts_before(a, b)
         IN <<first>> \o sorted(S \ {first})

\* cursor.skip(skip).limit(limit)
window(s, skip, limit) ==
    SubSeq(s, skip + 1, IF skip + limit < Len(s) THEN skip + limit ELSE Len(s))

\* the annotation loop over docs
annotate(P, d, t) ==
    LET created == created_of(d)
        bucket == bucket_from_created_at(created, t)
        type_key == norm_type_key_from_doc(P, d)
    IN [doc |-> d,
        age_bucket |-> bucket,
        price |-> price_for(P, type_key, bucket),
        caboom_retail |-> caboom_retail_for(P, type_key),
        type_key |-> type_key]

\* skip = page * limit
skip_of_page(body) == body.page * body.limit

\* skip = (page - 1) * limit
skip_of(body) == (body.page - 1) * body.limit

\* the handler: the response for `body` against collection S at time t
leads_search(P, S, body, t) ==
    LET q == and_clauses(body, t)
        skip == skip_of(body)
        found == {d \in S : matches(d, q)}
        docs == window(sorted(found), skip, body.limit)
    IN [page |-> body.page,
        limit |-> body.limit,
        total |-> Cardinality(found),
        bucket_filter |-> norm_bucket(body.bucket),
        items |-> [i \in DOMAIN docs |-> annotate(P, docs[i], t)],
        query |-> q]

-----------------------------------------------------------------------------
(* Sample texts: stored field values and request inputs *)

t_TX == <<"T","X">>
t_CA == <<"C","A">>
t_tx_lower == <<"t","x">>
t_tx_padded == <<" ","t","x"," ">>
t_all_states == <<"A","l","l"," ","S","t","a","t","e","s">>
t_75001 == <<"7","5","0","0","1">>
t_zip_plus4 == <<"7","5","0","0","1","-","1","2","3","4">>
t_Final_Expense == <<"F","i","n","a","l"," ","E","x","p","e","n","s","e">>
t_final_expense_sp == <<"f","i","n","a","l"," ","e","x","p","e","n","s","e">>
t_Life == <<"L","i","f","e">>
t_boat == <<"b","o","a","t">>
t_XYZ == <<"X","Y","Z">>
t_fe == <<"f","e">>
t_fe_padded == <<" ","f","e"," ">>
t_days_4_14_padded == <<" ","d","a","y","s","_","4","_","1","4"," ">>
t_yesterday == <<"y","e","s","t","e","r","d","a","y">>
t_91_plus == <<"9","1","_","p","l","u","s">>
t_FOO == <<"F","O","O">>
t_Life_padded == <<" ","L","i","f","e"," ">>
t_yesterday_72h == <<"y","e","s","t","e","r","d","a","y","_","7","2","h">>

-----------------------------------------------------------------------------
(* The collection.  Documents come from a fixed catalogue (each with its   *)
(* own _id); the collection holds any MaxStore of them.                    *)

MaxStore == 2
MaxPage == 2
MaxLimit == 2

At(age) == NowStart - age

Doc(id, createdAt, created_at, state, state2, zip5, zip_code, code, norm) ==
    [id |-> id, createdAt |-> createdAt, created_at |-> created_at,
     state |-> state, state2 |-> state2, zip5 |-> zip5, zip_code |-> zip_code,
     lead_type_code |-> code, lead_type_norm |-> norm]

Catalogue ==
    { Doc(1, DateV(At(Days(1))), None, StrV(t_TX), None, StrV(t_75001), None,
          StrV(s_FE), StrV(t_Final_Expense)),
      Doc(2, DateV(At(Days(3) + 1)), DateV(At(Days(10))), StrV(t_CA), StrV(t_TX), None,
          IntV(75001), StrV(s_FE), None),
      Doc(3, DateV(At(Days(1))), None, StrV(t_tx_lower), None, None,
          StrV(t_75001), StrV(t_XYZ), StrV(t_Life)),
      Doc(4, None, DateV(At(Days(10))), StrV(t_TX), None, StrV(t_75001), None,
          StrV(t_fe), None),
      Doc(5, IsoStrV(At(Days(20))), None, StrV(t_CA), None, None, None,
          None, StrV(t_boat)),
      Doc(6, None, None, StrV(t_TX), None, None, IntV(7001),
          StrV(s_LIFE), StrV(t_Life)),
      Doc(7, DateV(At(Days(5))), None, StrV(t_TX), None, StrV(t_75001), None,
          StrV(s_FE), StrV(t_Final_Expense)) }

Stores == {S \in SUBSET Catalogue : Cardinality(S) <= MaxStore}

\* request bodies the validation of LeadsSearchRequest lets through
BucketInputs == {s_ALL, t_days_4_14_padded, t_FOO}
StateInputs == {None, StrV(t_tx_padded), StrV(t_all_states)}
ZipInputs == {None, StrV(t_zip_plus4)}
CodeInputs == {None, StrV(t_fe_padded), StrV(t_XYZ)}
NormInputs == {None, StrV(t_final_expense_sp)}

Bodies ==
    [bucket : BucketInputs, page : 1 .. MaxPage, limit : {1, MaxLimit},
     state : StateInputs, zip : ZipInputs,
     lead_type_norm : NormInputs, lead_type_code : CodeInputs]

\* PRICING_JSON values: unset, and one override document
JObject(items) == [t |-> "object", items |-> items]
JText(j) == [t |-> "text", json |-> j]
Unset == [t |-> "unset"]

OverrideLife ==
    JText(JObject(<< <<t_Life_padded, JObject(<< <<t_yesterday_72h, Num(2100)>> >>)>>,
                     <<s_final_expense, JObject(<< <<s_DAYS_4_14, Num(0)>> >>)>> >>))

NoResp == [ok |-> FALSE]
NoSess == [open |-> FALSE]
NoProbe == [k |-> "none"]
NoLedger == <<>>
NoCallers == <<>>

-----------------------------------------------------------------------------
(* The service: import of main.py, then requests *)

\* if not MONGO_URI: raise RuntimeError
MONGO_URI_given == env.MONGO_URI = "set"

\* import: MONGO_URI is required, then PRICING = load_pricing()
Startup ==
    /\ phase = "boot"
    /\ IF MONGO_URI_given
       THEN /\ phase' = "serving"
            /\ PRICING' = load_pricing(env.PRICING_JSON)
       ELSE /\ phase' = "crashed"
            /\ UNCHANGED PRICING
    /\ UNCHANGED <<now, env, store, resp, sess, probe, ledger, callers>>

\* POST /leads/search: the handler runs and its response is held until
\* the client has taken it
Search ==
    /\ phase = "serving"
    /\ resp = NoResp
    /\ \E body \in Bodies :
          resp' = [ok |-> TRUE, body |-> body, r |-> leads_search(PRICING, store, body, now)]
    /\ UNCHANGED <<now, phase, env, PRICING, store, sess, probe, ledger, callers>>

\* the client takes the response
Deliver ==
    /\ resp # NoResp
    /\ resp' = NoResp
    /\ UNCHANGED <<now, phase, env, PRICING, store, sess, probe, ledger, callers>>

Init ==
    /\ now \in {NowStart, NowEnd}
    /\ phase = "boot"
    /\ env \in [MONGO_URI : {"set", "unset"}, PRICING_JSON : {Unset, OverrideLife}]
    /\ PRICING = EmptyDict
    /\ store \in Stores
    /\ resp = NoResp
    /\ sess = NoSess
    /\ probe = NoProbe
    /\ ledger = NoLedger
    /\ callers = NoCallers

Next == Startup \/ Search \/ Deliver

Spec == Init /\ [][Next]_vars

-----------------------------------------------------------------------------
(* Claims about the search handler, checked under Spec *)

Items == resp.r.items
Positions == DOMAIN resp.r.items

\* a criterion of the request is in force
C2_tier_in_force(body) == norm_bucket(body.bucket) \in TierSet
C2_state_in_force(body) ==
    given(body.state) /\ upper(strip(body.state.v)) \notin {s_ALL_STATES, s_ALL, s_ANY}
C2_zip_in_force(body) == given(body.zip) /\ digits_of(body.zip.v) # <<>>
C2_code_in_force(body) ==
    given(body.lead_type_code) /\ in_CODE_TO_KEY(upper(strip(body.lead_type_code.v)))
C2_norm_in_force(body) == ~given(body.lead_type_code) /\ given(body.lead_type_norm)

C2_zip5(body) ==
    LET z == digits_of(body.zip.v) IN IF Len(z) > 5 THEN SubSeq(z, 1, 5) ELSE z

C2_in_tier(d, T, t) ==
    \E f \in {d.createdAt, d.created_at} :
        /\ f.t = "date"
        /\ LET age == t - f.v IN
           CASE T = s_YESTERDAY_72H -> age <= Days(3)
             [] T = s_DAYS_4_14 -> Days(4) <= age /\ age <= Days(14)
             [] T = s_DAYS_15_30 -> Days(15) <= age /\ age <= Days(30)
             [] T = s_DAYS_31_90 -> Days(31) <= age /\ age <= Days(90)
             [] OTHER -> age >= Days(91)

\* the record satisfies every criterion in force
C2_satisfies(d, body, t) ==
    /\ C2_tier_in_force(body) => C2_in_tier(d, norm_bucket(body.bucket), t)
    /\ C2_state_in_force(body) =>
          \E f \in {d.state, d.state2} : f.t = "str" /\ f.v = upper(strip(body.state.v))
    /\ C2_zip_in_force(body) =>
          \/ \E f \in {d.zip5, d.zip_code} : f.t = "str" /\ f.v = C2_zip5(body)
          \/ d.zip_code.t = "int" /\ d.zip_code.v = int_of(C2_zip5(body))
    /\ C2_code_in_force(body) =>
          d.lead_type_code.t = "str"
          /\ d.lead_type_code.v = upper(strip(body.lead_type_code.v))
    /\ C2_norm_in_force(body) =>
          d.lead_type_norm.t = "str"
          /\ lower(d.lead_type_norm.v) = lower(strip(body.lead_type_norm.v))

\* C2 (as stated): the state, zip, lead-type and bucket criteria never remove
\* a record: the reported total is the size of the whole record set.
C2_Original ==
    resp.ok => resp.r.total = Cardinality(store)

\* C2 (amended): the criteria in force are filters: the reported total is the
\* number of records that satisfy every criterion in force, every returned
\* record satisfies them all, and only with no criterion in force is the
\* total the size of the whole record set.
C2_Filters ==
    resp.ok =>
        /\ resp.r.total = Cardinality({d \in store : C2_satisfies(d, resp.body, now)})
        /\ \A i \in Positions :
              Items[i].doc \in store /\ C2_satisfies(Items[i].doc, resp.body, now)
        /\ (~C2_tier_in_force(resp.body) /\ ~C2_state_in_force(resp.body)
            /\ ~C2_zip_in_force(resp.body) /\ ~C2_code_in_force(resp.body)
            /\ ~C2_norm_in_force(resp.body)) => resp.r.total = Cardinality(store)

\* a search whose criteria removed some records and kept others
C2_Witness ==
    /\ resp.ok
    /\ 0 < resp.r.total /\ resp.r.total < Cardinality(store)
    /\ C2_state_in_force(resp.body)

\* the requested criteria a record matches (the boost criteria of the design)
C3_matched(d, body, t) ==
    {c \in {"state", "zip", "code", "norm", "tier"} :
        CASE c = "state" ->
                given(body.state)
                /\ \E f \in {d.state, d.state2} :
                      f.t = "str" /\ upper(f.v) = upper(strip(body.state.v))
          [] c = "zip" ->
                C2_zip_in_force(body)
                /\ (\/ \E f \in {d.zip5, d.zip_code} : f.t = "str" /\ f.v = C2_zip5(body)
                    \/ d.zip_code.t = "int" /\ d.zip_code.v = int_of(C2_zip5(body)))
          [] c = "code" ->
                given(body.lead_type_code)
                /\ d.lead_type_code.t = "str"
                /\ upper(strip(d.lead_type_code.v)) = upper(strip(body.lead_type_code.v))
          [] c = "norm" ->
                given(body.lead_type_norm)
                /\ d.lead_type_norm.t = "str"
                /\ lower(strip(d.lead_type_norm.v)) = lower(strip(body.lead_type_norm.v))
          [] OTHER ->
                C2_tier_in_force(body)
                /\ bucket_from_created_at(created_of(d), t) = StrV(norm_bucket(body.bucket))}

\* C3 (as stated): a record matching more of the requested criteria is never
\* placed after a record of the same result that matches fewer.
C3_Original ==
    resp.ok =>
        \A i, j \in Positions :
            i < j =>
                ~(/\ C3_matched(Items[i].doc, resp.body, now)
                        \subseteq C3_matched(Items[j].doc, resp.body, now)
                  /\ C3_matched(Items[i].doc, resp.body, now)
                        # C3_matched(Items[j].doc, resp.body, now))

\* the rank of a stored timestamp field in a descending sort: dates above
\* texts above a missing field, later above earlier
C3_key(fv) ==
    CASE fv.t = "date" -> 2 * (NowEnd + Days(SkewDays)) + 3 + fv.v
      [] fv.t = "isostr" -> (NowEnd + Days(SkewDays)) + 2 + fv.v
      [] OTHER -> 0

C3_before(a, b) ==
    \/ C3_key(a.createdAt) > C3_key(b.createdAt)
    \/ /\ C3_key(a.createdAt) = C3_key(b.createdAt)
       /\ \/ C3_key(a.created_at) > C3_key(b.created_at)
          \/ /\ C3_key(a.created_at) = C3_key(b.created_at)
             /\ a.id > b.id

\* C3 (amended): the items are in descending order of the stored createdAt
\* field, ties in descending order of created_at, remaining ties in
\* descending order of the record identifier; no two items tie, so the order
\* is fixed by the store contents, the request and the current time.
C3_Order ==
    resp.ok =>
        \A i, j \in Positions :
            i < j => C3_before(Items[i].doc, Items[j].doc)

\* two items with the same createdAt and created_at, ordered by identifier
C3_Witness ==
    /\ resp.ok
    /\ \E i, j \in Positions :
          /\ i < j
          /\ Items[i].doc.createdAt = Items[j].doc.createdAt
          /\ Items[i].doc.created_at = Items[j].doc.created_at

\* the price the table holds for (type, tier), absent when it holds none
C8_expected(P, type_key, bucket) ==
    IF /\ type_key.t = "str" /\ bucket.t = "str"
       /\ type_key.v \in DOMAIN P
       /\ bucket.v \in DOMAIN P[type_key.v]
    THEN [t |-> "num", v |-> P[type_key.v][bucket.v]]
    ELSE [t |-> "none", v |-> 0]

C8_types == {None} \cup {StrV(k) : k \in TypeKeys \cup {t_boat}}
C8_tiers == {None} \cup {StrV(T) : T \in TierSet}

\* C8: price_for gives the table's price where the table has the type and the
\* tier, and otherwise gives absent (never 0, never an error); an unpriced
\* record is still among the returned items, with price absent.
C8_Unpriced ==
    phase = "serving" =>
        /\ \A ty \in C8_types, ti \in C8_tiers :
              price_for(PRICING, ty, ti) = C8_expected(PRICING, ty, ti)
        /\ resp.ok =>
              /\ \A i \in Positions :
                    Items[i].price
                        = C8_expected(PRICING, Items[i].type_key, Items[i].age_bucket)
              /\ LET skip == (resp.body.page - 1) * resp.body.limit
                     rest == IF resp.r.total > skip THEN resp.r.total - skip ELSE 0
                 IN Len(Items) = IF rest < resp.body.limit THEN rest ELSE resp.body.limit

\* a returned record whose tier the table does not price for its type
C8_Witness ==
    /\ resp.ok
    /\ \E i \in Positions :
          /\ Items[i].price.t = "none"
          /\ Items[i].type_key.t = "str"
          /\ Items[i].age_bucket.t = "str"

-----------------------------------------------------------------------------
(* The classifier and the range filter on one document, at one clock       *)
(* reading: SpecBucket                                                     *)

t_15_30 == <<"1","5","_","3","0">>
t_days_31_90 == <<"D","a","y","s","_","3","1","_","9","0">>

ProbeCreatedAt ==
    {None, BadStr} \cup {DateV(t) : t \in Times} \cup {IsoStrV(t) : t \in Times}
ProbeCreated_at == {None, DateV(At(Days(1))), DateV(At(Days(10)))}
FilterInputs ==
    {s_ALL, t_yesterday, t_days_4_14_padded, t_15_30, t_days_31_90, t_91_plus}

Unknown == [t |-> "unset", v |-> 0]

\* created = parse_dt(createdAt) or parse_dt(created_at);
\* bucket = bucket_from_created_at(created)
Classify ==
    /\ probe.k = "bucket"
    /\ probe.bucket = Unknown
    /\ probe' = [probe EXCEPT !.bucket = bucket_from_created_at(created_of(probe.doc), now)]
    /\ UNCHANGED <<now, phase, env, PRICING, store, resp, sess, ledger, callers>>

\* brq = bucket_range_query(bucket_up); the document against find(brq)
Filter ==
    /\ probe.k = "bucket"
    /\ probe.filt = Unknown
    /\ \E b \in FilterInputs :
          LET rq == bucket_range_query(norm_bucket(b), now) IN
          probe' = [probe EXCEPT
                       !.filt = StrV(norm_bucket(b)),
                       !.hit = IF rq.k = "none" THEN TRUE ELSE or_created(probe.doc, rq)]
    /\ UNCHANGED <<now, phase, env, PRICING, store, resp, sess, ledger, callers>>

InitBucket ==
    /\ now \in NowStart .. NowEnd
    /\ phase = "serving"
    /\ env = [MONGO_URI |-> "set", PRICING_JSON |-> Unset]
    /\ PRICING = EmptyDict
    /\ store = {}
    /\ resp = NoResp
    /\ sess = NoSess
    /\ \E c \in ProbeCreatedAt, c2 \in ProbeCreated_at :
          probe = [k |-> "bucket", doc |-> [createdAt |-> c, created_at |-> c2],
                   bucket |-> Unknown, filt |-> Unknown, hit |-> FALSE]
    /\ ledger = NoLedger
    /\ callers = NoCallers

NextBucket == Classify \/ Filter

SpecBucket == InitBucket /\ [][NextBucket]_vars

ProbeClassified == probe.k = "bucket" /\ probe.bucket # Unknown
ProbeAge == now - created_of(probe.doc).v

\* C1 (as stated): a non-negative age in [0,3] days is TIER_0_3D, in (3,14]
\* TIER_4_14D, in (14,30] TIER_15_30D, in (30,90] TIER_31_90D, above 90
\* TIER_91_PLUS.
C1_Original ==
    (ProbeClassified /\ created_of(probe.doc).t = "date" /\ ProbeAge >= 0) =>
        probe.bucket =
            IF ProbeAge <= Days(3) THEN StrV(s_YESTERDAY_72H)
            ELSE IF ProbeAge <= Days(14) THEN StrV(s_DAYS_4_14)
            ELSE IF ProbeAge <= Days(30) THEN StrV(s_DAYS_15_30)
            ELSE IF ProbeAge <= Days(90) THEN StrV(s_DAYS_31_90)
            ELSE StrV(s_DAYS_91_PLUS)

\* C1 (amended): a non-negative age below 4 days is YESTERDAY_72H, in [4,15)
\* DAYS_4_14, in [15,31) DAYS_15_30, in [31,91) DAYS_31_90, 91 days and more
\* DAYS_91_PLUS: each tier reaches up to the whole-day start of the next.
C1_Table ==
    (ProbeClassified /\ created_of(probe.doc).t = "date" /\ ProbeAge >= 0) =>
        probe.bucket =
            IF ProbeAge < Days(4) THEN StrV(s_YESTERDAY_72H)
            ELSE IF ProbeAge < Days(15) THEN StrV(s_DAYS_4_14)
            ELSE IF ProbeAge < Days(31) THEN StrV(s_DAYS_15_30)
            ELSE IF ProbeAge < Days(91) THEN StrV(s_DAYS_31_90)
            ELSE StrV(s_DAYS_91_PLUS)

\* a classified record whose age lies strictly between 90 and 91 days
C1_Witness ==
    /\ ProbeClassified
    /\ created_of(probe.doc).t = "date"
    /\ Days(90) < ProbeAge /\ ProbeAge < Days(91)

\* C9: a createdAt later than now is classified YESTERDAY_72H.
C9_Future ==
    (ProbeClassified /\ probe.doc.createdAt.t \in {"date", "isostr"}
       /\ probe.doc.createdAt.v > now) =>
        probe.bucket = StrV(s_YESTERDAY_72H)

\* a classified record whose createdAt is later than now
C9_Witness ==
    /\ ProbeClassified
    /\ probe.doc.createdAt.t = "date"
    /\ probe.doc.createdAt.v > now

\* C10: for a record that has a createdAt datetime (and no created_at), at one
\* clock reading, the range condition of tier T holds of the record exactly
\* when the classifier assigns it T.
C10_Agree ==
    (/\ ProbeClassified
     /\ probe.filt # Unknown /\ probe.filt.v \in TierSet
     /\ probe.doc.createdAt.t = "date" /\ probe.doc.created_at.t = "none") =>
        (probe.hit <=> probe.bucket = probe.filt)

-----------------------------------------------------------------------------
(* Import under every PRICING_JSON of a bounded family: SpecPricing *)

MaxRows == 2

NumStr(c) == [t |-> "numstr", v |-> c]
NotNumber == [t |-> "str", v |-> 0]
Null == [t |-> "null", v |-> 0]

RowSamples ==
    { Num(5),
      JObject(<<>>),
      JObject(<< <<t_yesterday_72h, Num(2100)>> >>),
      JObject(<< <<t_yesterday_72h, NotNumber>> >>),
      JObject(<< <<t_yesterday_72h, Num(0)>>, <<s_DAYS_4_14, NumStr(1250)>> >>),
      JObject(<< <<s_DAYS_4_14, Null>>, <<t_yesterday_72h, Num(2100)>> >>) }

RowKeys == {t_Life_padded, s_life, s_auto}

SeqsUpTo(S, n) == UNION {[1 .. k -> S] : k \in 0 .. n}

PricingEnvs ==
    {Unset, [t |-> "empty"], JText([t |-> "invalid"]), JText([t |-> "list"]), JText(Num(5))}
    \cup {JText(JObject(items)) : items \in SeqsUpTo(RowKeys \X RowSamples, MaxRows)}

\* GET /pricing
GetPricing ==
    /\ phase = "serving"
    /\ resp = NoResp
    /\ resp' = [ok |-> TRUE, pricing |-> PRICING]
    /\ UNCHANGED <<now, phase, env, PRICING, store, sess, probe, ledger, callers>>

InitPricing ==
    /\ now = NowStart
    /\ phase = "boot"
    /\ env \in [MONGO_URI : {"set", "unset", "empty"}, PRICING_JSON : PricingEnvs]
    /\ PRICING = EmptyDict
    /\ store = {}
    /\ resp = NoResp
    /\ sess = NoSess
    /\ probe = NoProbe
    /\ ledger = NoLedger
    /\ callers = NoCallers

NextPricing == Startup \/ GetPricing \/ Deliver

SpecPricing == InitPricing /\ [][NextPricing]_vars

\* the override is no valid JSON, no object, or holds a price that is no number
C7_malformed(raw) ==
    /\ raw.t = "text"
    /\ \/ raw.json.t = "invalid"
       \/ raw.json.t # "object"
       \/ \E i \in DOMAIN raw.json.items :
             /\ raw.json.items[i][2].t = "object"
             /\ \E j \in DOMAIN raw.json.items[i][2].items :
                   raw.json.items[i][2].items[j][2].t \in {"str", "null"}

\* C7 (as stated): with a malformed pricing override the import fails: no
\* pricing table is produced and the process never serves.
C7_Original ==
    C7_malformed(env.PRICING_JSON) => (phase # "serving" /\ PRICING = EmptyDict)

\* C7 (amended): a malformed pricing override is not fatal: the import fails
\* only for a missing MONGO_URI, and with a malformed override the process
\* serves with the default pricing table.
C7_Fallback ==
    /\ phase = "crashed" => env.MONGO_URI # "set"
    /\ phase = "serving" => env.MONGO_URI = "set"
    /\ (phase = "serving" /\ C7_malformed(env.PRICING_JSON)) => PRICING = DEFAULT_PRICING
    /\ (resp.ok /\ C7_malformed(env.PRICING_JSON)) => resp.pricing = DEFAULT_PRICING

\* a request served under an override with a price that is no number
C7_Witness ==
    /\ resp.ok
    /\ env.PRICING_JSON.t = "text"
    /\ env.PRICING_JSON.json.t = "object"
    /\ C7_malformed(env.PRICING_JSON)

-----------------------------------------------------------------------------
(* A client paging through one query, page 1, 2, ..., while the clock runs *)
(* and documents are ingested: SpecPages                                   *)

MaxPageStore == 3

PageStores == {S \in SUBSET Catalogue : Cardinality(S) <= MaxPageStore}

PageBodies ==
    [bucket : {s_ALL, t_days_4_14_padded}, page : {1}, limit : 1 .. MaxLimit,
     state : {None, StrV(t_tx_padded)}, zip : {None},
     lead_type_norm : {None}, lead_type_code : {None}]

\* N = ceil(total / limit)
PagesOf(total, limit) == (total + limit - 1) \div limit

\* POST /leads/search, page 1 of a new query
FirstPage ==
    /\ phase = "serving"
    /\ ~sess.open
    /\ \E body \in PageBodies :
          sess' = [open |-> TRUE, body |-> body,
                   pages |-> <<leads_search(PRICING, store, body, now)>>,
                   changed |-> FALSE]
    /\ UNCHANGED <<now, phase, env, PRICING, store, resp, probe, ledger, callers>>

\* POST /leads/search, the next page of the same request
NextPage ==
    /\ phase = "serving"
    /\ sess.open
    /\ Len(sess.pages) < PagesOf(sess.pages[1].total, sess.body.limit)
    /\ LET body == [sess.body EXCEPT !.page = Len(sess.pages) + 1] IN
       sess' = [sess EXCEPT !.pages = Append(@, leads_search(PRICING, store, body, now))]
    /\ UNCHANGED <<now, phase, env, PRICING, store, resp, probe, ledger, callers>>

\* the client drops the query
EndPaging ==
    /\ sess.open
    /\ sess' = NoSess
    /\ UNCHANGED <<now, phase, env, PRICING, store, resp, probe, ledger, callers>>

\* the clock advances
Tick ==
    /\ now < NowEnd
    /\ now' = now + 1
    /\ UNCHANGED <<phase, env, PRICING, store, resp, sess, probe, ledger, callers>>

\* the external ingest process inserts a document
Ingest ==
    /\ Cardinality(store) < MaxPageStore
    /\ \E d \in Catalogue \ store : store' = store \cup {d}
    /\ sess' = IF sess.open THEN [sess EXCEPT !.changed = TRUE] ELSE sess
    /\ UNCHANGED <<now, phase, env, PRICING, resp, probe, ledger, callers>>

InitPages ==
    /\ now = NowStart
    /\ phase = "serving"
    /\ env = [MONGO_URI |-> "set", PRICING_JSON |-> Unset]
    /\ PRICING = DEFAULT_PRICING
    /\ store \in PageStores
    /\ resp = NoResp
    /\ sess = NoSess
    /\ probe = NoProbe
    /\ ledger = NoLedger
    /\ callers = NoCallers

NextPages == FirstPage \/ NextPage \/ EndPaging \/ Tick \/ Ingest

SpecPages == InitPages /\ [][NextPages]_vars

RECURSIVE C4_concat(_)
C4_concat(pages) ==
    IF pages = <<>> THEN <<>>
    ELSE [i \in DOMAIN pages[1].items |-> pages[1].items[i].doc]
            \o C4_concat(Tail(pages))

\* every page of the query has been fetched, with the same query, from an
\* unchanged store
C4_complete ==
    /\ sess.open
    /\ ~sess.changed
    /\ \A k \in DOMAIN sess.pages : sess.pages[k].query = sess.pages[1].query
    /\ Len(sess.pages) >= PagesOf(sess.pages[1].total, sess.body.limit)

\* C4: for a fixed query, a fixed limit and an unchanging store, the pages
\* 1..N in order hold every matching record exactly once, in sorted order, and
\* every page reports the number of matching records as total.
C4_Pagination ==
    C4_complete =>
        LET all == C4_concat(sess.pages)
            found == {d \in store : matches(d, sess.pages[1].query)}
        IN /\ \A i, j \in DOMAIN all : i < j => all[i] # all[j]
           /\ Range(all) = found
           /\ \A i, j \in DOMAIN all : i < j => C3_before(all[i], all[j])
           /\ \A k \in DOMAIN sess.pages : sess.pages[k].total = Cardinality(found)

\* a query of three pages fetched to the end
C4_Witness ==
    /\ C4_complete
    /\ Len(sess.pages) >= 3
    /\ Len(C4_concat(sess.pages)) >= 3

-----------------------------------------------------------------------------
(* Checkout (design document, sections 4.5, 5 and 6): concurrent callers   *)
(* each run  conditional update per record -> re-read -> return, and may   *)
(* repeat the same call: SpecCheckout                                      *)

MaxIds == 2

\* two concurrent callers and two records; 0 stands for an identifier that
\* names no record
Callers == {1, 2}
RecIds == {1, 2}
Malformed == 0
CheckoutTiers == {s_YESTERDAY_72H, s_DAYS_4_14}

\* non-empty lists of distinct identifiers, well-formed or not
IdLists ==
    {l \in SeqsUpTo(RecIds \cup {Malformed}, MaxIds) :
        l # <<>> /\ \A i, j \in DOMAIN l : i # j => l[i] # l[j]}

soldTiers(L, id) == Range(L[id])

\* the update without its condition: the tier is pushed whatever the ledger holds
conditionalAdd_unconditional(L, id, tier) ==
    IF id \in DOMAIN L THEN [L EXCEPT ![id] = Append(@, tier)] ELSE L

\* conditionalAddTierToLedger for one record: add the tier unless present
conditionalAdd(L, id, tier) ==
    IF id \in DOMAIN L /\ tier \notin soldTiers(L, id)
    THEN [L EXCEPT ![id] = Append(@, tier)]
    ELSE L

\* the count of this call's own updates reported as sold, without a re-read
soldOnReread_applied(L, ids, tier, applied) ==
    {i \in DOMAIN ids : ids[i] \in applied}

\* the ids whose ledger holds the tier on re-read
soldOnReread(L, ids, tier, applied) ==
    {i \in DOMAIN ids : ids[i] \in DOMAIN L /\ tier \in soldTiers(L, ids[i])}

Idle == [pc |-> "idle"]

\* checkout(tier, recordIds) is called
Call(c) ==
    /\ callers[c].pc = "idle"
    /\ \E tier \in CheckoutTiers, ids \in IdLists :
          callers' = [callers EXCEPT ![c] =
              [pc |-> "update", tier |-> tier, ids |-> ids, k |-> 1, applied |-> {},
               round |-> 1, prev |-> 0, sold |-> 0, failed |-> <<>>, soldIds |-> {}]]
    /\ UNCHANGED <<now, phase, env, PRICING, store, resp, sess, probe, ledger>>

\* step 1, one record: the conditional update
UpdateOne(c) ==
    /\ callers[c].pc = "update"
    /\ LET me == callers[c]
           id == me.ids[me.k]
           after == conditionalAdd(ledger, id, me.tier)
       IN /\ ledger' = after
          /\ callers' = [callers EXCEPT ![c] =
                [me EXCEPT !.k = @ + 1,
                           !.applied = IF after # ledger THEN @ \cup {id} ELSE @,
                           !.pc = IF me.k = Len(me.ids) THEN "reread" ELSE "update"]]
    /\ UNCHANGED <<now, phase, env, PRICING, store, resp, sess, probe>>

\* steps 2 and 3: re-read the ledgers of the requested records and report
Reread(c) ==
    /\ callers[c].pc = "reread"
    /\ LET me == callers[c]
           ok == soldOnReread(ledger, me.ids, me.tier, me.applied)
       IN callers' = [callers EXCEPT ![c] =
              [me EXCEPT !.pc = "done",
                         !.sold = Cardinality(ok),
                         !.failed = SelectSeq(me.ids, LAMBDA x :
                                        \A i \in ok : me.ids[i] # x),
                         !.soldIds = {me.ids[i] : i \in ok}]]
    /\ UNCHANGED <<now, phase, env, PRICING, store, resp, sess, probe, ledger>>

\* the same (tier, ids) is submitted again
Repeat(c) ==
    /\ callers[c].pc = "done"
    /\ callers[c].round = 1
    /\ callers' = [callers EXCEPT ![c] =
          [@ EXCEPT !.pc = "update", !.k = 1, !.applied = {}, !.round = 2,
                    !.prev = callers[c].sold]]
    /\ UNCHANGED <<now, phase, env, PRICING, store, resp, sess, probe, ledger>>

\* the caller has its answer
Return(c) ==
    /\ callers[c].pc = "done"
    /\ callers' = [callers EXCEPT ![c] = Idle]
    /\ UNCHANGED <<now, phase, env, PRICING, store, resp, sess, probe, ledger>>

InitCheckout ==
    /\ now = NowStart
    /\ phase = "serving"
    /\ env = [MONGO_URI |-> "set", PRICING_JSON |-> Unset]
    /\ PRICING = EmptyDict
    /\ store = {}
    /\ resp = NoResp
    /\ sess = NoSess
    /\ probe = NoProbe
    /\ ledger = [r \in RecIds |-> <<>>]
    /\ callers = [c \in Callers |-> Idle]

NextCheckout ==
    \E c \in Callers : Call(c) \/ UpdateOne(c) \/ Reread(c) \/ Repeat(c) \/ Return(c)

SpecCheckout == InitCheckout /\ [][NextCheckout]_vars

Count(seq, x) == Cardinality({i \in DOMAIN seq : seq[i] = x})
Active(c) == callers[c].pc # "idle"

\* C5: of the interleaved checkout calls for one record and one tier at most
\* one performs the transition, the ledger holds the tier once, and every
\* caller that has re-read saw the tier in the record's ledger.
C5_OneWinner ==
    /\ \A r \in RecIds, T \in CheckoutTiers : Count(ledger[r], T) <= 1
    /\ \A c1, c2 \in Callers :
          (c1 # c2 /\ Active(c1) /\ Active(c2) /\ callers[c1].tier = callers[c2].tier) =>
              callers[c1].applied \cap callers[c2].applied = {}
    /\ \A c \in Callers :
          callers[c].pc = "done" =>
              \A i \in DOMAIN callers[c].ids :
                  callers[c].ids[i] \in RecIds =>
                      /\ callers[c].ids[i] \in callers[c].soldIds
                      /\ Count(ledger[callers[c].ids[i]], callers[c].tier) = 1

\* two calls for the same tier and a common record have both answered, and
\* one of them made the transition
C5_Witness ==
    \E c1, c2 \in Callers, r \in RecIds :
        /\ c1 # c2
        /\ callers[c1].pc = "done" /\ callers[c2].pc = "done"
        /\ callers[c1].round = 1 /\ callers[c2].round = 1
        /\ callers[c1].tier = callers[c2].tier
        /\ r \in Range(callers[c1].ids) /\ r \in Range(callers[c2].ids)
        /\ r \in callers[c1].applied
        /\ r \notin callers[c2].applied

\* the repeat of a call answers with the sold count of the first call and
\* makes no transition
C6_repeat_same ==
    \A c \in Callers :
        (callers[c].pc = "done" /\ callers[c].round = 2) =>
            /\ callers[c].sold = callers[c].prev
            /\ callers[c].applied = {}

\* a ledger only grows
C6_grows == \A r \in RecIds : soldTiers(ledger, r) \subseteq soldTiers(ledger', r)

\* C6: a second checkout with the same (tier, ids) returns the sold count of
\* the first and changes no record's ledger, and a ledger never loses a tier.
C6_Idempotent == [](C6_repeat_same) /\ [][C6_grows]_vars

\* a repeated call has answered, having sold a record the first time
C6_Witness ==
    \E c \in Callers :
        /\ callers[c].pc = "done" /\ callers[c].round = 2
        /\ callers[c].prev >= 1

====
